---------------------------- MODULE Spec2Model ----------------------------
(***************************************************************************)
(* CLIStyle (src/clistyle.hpp): the escape tables, the RGB generator, the  *)
(* virtual-terminal capability gate and the public styling operations.     *)
(*                                                                         *)
(* A byte string is a sequence of one-character strings; the byte 0x1B is  *)
(* the element ESC.  The process is a state machine whose steps are the    *)
(* calls a host program makes into the library, one call per step.         *)
(***************************************************************************)
EXTENDS Integers, Sequences, FiniteSets, TLC

\* ------------------------------------------------------------------ bounds
MaxCalls == 2        \* calls the host program makes in one run
MaxTextLen == 1      \* length of the text handed to a string-form call
MaxRoundLen == 3     \* length of a text that may itself hold escape bytes
MaxThreads == 2      \* threads of the host program that call into the library

\* ------------------------------------------------------ bytes and strings
ESC == "ESC"

TextChars == {"h", ESC}

RECURSIVE SeqsUpTo(_)
SeqsUpTo(n) ==
  IF n = 0 THEN {<<>>}
  ELSE LET P == SeqsUpTo(n - 1)
       IN  P \cup {Append(t, ch) : t \in P, ch \in TextChars}

Texts == SeqsUpTo(MaxTextLen)

\* texts made of the bytes of an escape sequence and one plain character
RoundChars == {"h", ESC, "[", "0", "m"}

RECURSIVE SeqsOver(_, _)
SeqsOver(chars, n) ==
  IF n = 0 THEN {<<>>}
  ELSE LET P == SeqsOver(chars, n - 1)
       IN  P \cup {Append(t, ch) : t \in P, ch \in chars}

RoundTexts == SeqsOver(RoundChars, MaxRoundLen)

DigitChars == <<"0", "1", "2", "3", "4", "5", "6", "7", "8", "9">>

\* ----------------------------------------------------------- escape table
\* _private::styles
styles ==
  ("bold" :> <<ESC, "[", "1", "m">>) @@
  ("italic" :> <<ESC, "[", "3", "m">>) @@
  ("underline" :> <<ESC, "[", "4", "m">>) @@
  ("reverse" :> <<ESC, "[", "7", "m">>)

\* color_text without its entry for bright white
color_text_init_short ==
  ("grey" :> <<ESC, "[", "3", "0", "m">>) @@
  ("red" :> <<ESC, "[", "3", "1", "m">>) @@
  ("green" :> <<ESC, "[", "3", "2", "m">>) @@
  ("yellow" :> <<ESC, "[", "3", "3", "m">>) @@
  ("blue" :> <<ESC, "[", "3", "4", "m">>) @@
  ("magenta" :> <<ESC, "[", "3", "5", "m">>) @@
  ("cyan" :> <<ESC, "[", "3", "6", "m">>) @@
  ("white" :> <<ESC, "[", "3", "7", "m">>) @@
  ("bright grey" :> <<ESC, "[", "1", ";", "3", "0", "m">>) @@
  ("bright red" :> <<ESC, "[", "1", ";", "3", "1", "m">>) @@
  ("bright green" :> <<ESC, "[", "1", ";", "3", "2", "m">>) @@
  ("bright yellow" :> <<ESC, "[", "1", ";", "3", "3", "m">>) @@
  ("bright blue" :> <<ESC, "[", "1", ";", "3", "4", "m">>) @@
  ("bright magenta" :> <<ESC, "[", "1", ";", "3", "5", "m">>) @@
  ("bright cyan" :> <<ESC, "[", "1", ";", "3", "6", "m">>)

\* initial contents of _private::color_text
color_text_init ==
  ("grey" :> <<ESC, "[", "3", "0", "m">>) @@
  ("red" :> <<ESC, "[", "3", "1", "m">>) @@
  ("green" :> <<ESC, "[", "3", "2", "m">>) @@
  ("yellow" :> <<ESC, "[", "3", "3", "m">>) @@
  ("blue" :> <<ESC, "[", "3", "4", "m">>) @@
  ("magenta" :> <<ESC, "[", "3", "5", "m">>) @@
  ("cyan" :> <<ESC, "[", "3", "6", "m">>) @@
  ("white" :> <<ESC, "[", "3", "7", "m">>) @@
  ("bright grey" :> <<ESC, "[", "1", ";", "3", "0", "m">>) @@
  ("bright red" :> <<ESC, "[", "1", ";", "3", "1", "m">>) @@
  ("bright green" :> <<ESC, "[", "1", ";", "3", "2", "m">>) @@
  ("bright yellow" :> <<ESC, "[", "1", ";", "3", "3", "m">>) @@
  ("bright blue" :> <<ESC, "[", "1", ";", "3", "4", "m">>) @@
  ("bright magenta" :> <<ESC, "[", "1", ";", "3", "5", "m">>) @@
  ("bright cyan" :> <<ESC, "[", "1", ";", "3", "6", "m">>) @@
  ("bright white" :> <<ESC, "[", "1", ";", "3", "7", "m">>)

\* initial contents of _private::color_background
color_background_init ==
  ("grey" :> <<ESC, "[", "4", "0", "m">>) @@
  ("red" :> <<ESC, "[", "4", "1", "m">>) @@
  ("green" :> <<ESC, "[", "4", "2", "m">>) @@
  ("yellow" :> <<ESC, "[", "4", "3", "m">>) @@
  ("blue" :> <<ESC, "[", "4", "4", "m">>) @@
  ("magenta" :> <<ESC, "[", "4", "5", "m">>) @@
  ("cyan" :> <<ESC, "[", "4", "6", "m">>) @@
  ("white" :> <<ESC, "[", "4", "7", "m">>) @@
  ("bright grey" :> <<ESC, "[", "1", ";", "4", "0", "m">>) @@
  ("bright red" :> <<ESC, "[", "1", ";", "4", "1", "m">>) @@
  ("bright green" :> <<ESC, "[", "1", ";", "4", "2", "m">>) @@
  ("bright yellow" :> <<ESC, "[", "1", ";", "4", "3", "m">>) @@
  ("bright blue" :> <<ESC, "[", "1", ";", "4", "4", "m">>) @@
  ("bright magenta" :> <<ESC, "[", "1", ";", "4", "5", "m">>) @@
  ("bright cyan" :> <<ESC, "[", "1", ";", "4", "6", "m">>) @@
  ("bright white" :> <<ESC, "[", "1", ";", "4", "7", "m">>)

\* _private::RESET_STYLE
\* the reset sequence with its parameter byte dropped
RESET_STYLE_typo == <<ESC, "[", "m">>

RESET_STYLE == <<ESC, "[", "0", "m">>

\* CLIStyle::TEXT and CLIStyle::BACKGROUND
TEXT == 1
BACKGROUND == 0

\* the 16 named colours, written as the key each of their functions uses
BaseColors == <<"grey", "red", "green", "yellow", "blue", "magenta", "cyan", "white">>

BrightColors == <<"bright grey", "bright red", "bright green", "bright yellow",
                  "bright blue", "bright magenta", "bright cyan", "bright white">>

NamedColors == {BaseColors[i] : i \in 1..8} \cup {BrightColors[i] : i \in 1..8}

StyleNames == {"bold", "italic", "underline", "reverse"}

\* values of the uint8_t position template argument: 0, 1, and one that is neither
Positions == {0, 1, 2}

\* the colours and colour components of the calls of a run
RunColors == {"grey", "red", "bright magenta"}

RunRGBs == {<<255, 0, 128>>}

\* the colour components of a single call: one-, two- and three-digit values
Components == {0, 9, 10, 99, 100, 255}

CallRGBs == Components \X Components \X Components

\* outcomes of the platform's console calls inside enableVTSequences
EnableFailures == {"no_handle", "no_getmode", "no_setmode"}

VARIABLES
  win32,               \* TRUE iff the build defines _WIN32
  handleVTSequences,   \* _private::handleVTSequences
  color_text,          \* _private::color_text
  color_background,    \* _private::color_background
  os,                  \* bytes of the caller's output stream
  ret,                 \* <<s>> when the last call returned the string s, else <<>>
  status,              \* "running" or "exited"
  diag,                \* what the process wrote to std::cerr
  enableCalls,         \* number of invocations of enableVTSequences
  ncalls,              \* number of calls made into the library
  last,                \* the last call: operation, arguments, enabler outcome
  threads              \* per thread: where its call stands, what it saw and produced

vars == <<win32, handleVTSequences, color_text, color_background, os, ret,
          status, diag, enableCalls, ncalls, last, threads>>

\* ------------------------------------------------------- private helpers
\* a formatter that pads to three digits, as "%03d" would
to_string_padded(n) ==
  <<DigitChars[(n \div 100) + 1], DigitChars[((n \div 10) % 10) + 1],
    DigitChars[(n % 10) + 1]>>

\* std::to_string of a uint8_t: decimal digits, most significant first
RECURSIVE to_string(_)
to_string(n) ==
  IF n < 10 THEN <<DigitChars[n + 1]>>
  ELSE to_string(n \div 10) \o <<DigitChars[(n % 10) + 1]>>

\* _private::getColor<position, red, green, blue>()
getColor(position, red, green, blue) ==
  IF position = 1
  THEN <<ESC, "[", "3", "8", ";", "2", ";">> \o to_string(red) \o <<";">>
         \o to_string(green) \o <<";">> \o to_string(blue) \o <<"m">>
  ELSE <<ESC, "[", "4", "8", ";", "2", ";">> \o to_string(red) \o <<";">>
         \o to_string(green) \o <<";">> \o to_string(blue) \o <<"m">>

\* colorText replacing the escape bytes of the text instead of passing them on
colorText_escaped(red, green, blue, text) ==
  getColor(1, red, green, blue)
    \o [i \in 1..Len(text) |-> IF text[i] = ESC THEN "^" ELSE text[i]]
    \o RESET_STYLE

\* _private::colorText<red, green, blue>(text)
colorText(red, green, blue, text) ==
  getColor(1, red, green, blue) \o text \o RESET_STYLE

\* _private::colorText<red, green, blue>()
colorTextSeq(red, green, blue) == getColor(1, red, green, blue)

\* _private::colorBackground<red, green, blue>(text)
colorBackground(red, green, blue, text) ==
  getColor(0, red, green, blue) \o text \o RESET_STYLE

\* _private::colorBackground<red, green, blue>()
colorBackgroundSeq(red, green, blue) == getColor(0, red, green, blue)

\* _private::checkPosition accepting TEXT only
checkPosition_textonly(position) == position # 1

\* _private::checkPosition: TRUE iff it writes its message and exits
checkPosition(position) == position # 1 /\ position # 0

PositionMessage == "Position must be either 0 or 1"

\* a lookup that yields nothing while the capability is not enabled
At_enabled(table, key) ==
  IF handleVTSequences /\ key \in DOMAIN table THEN table[key] ELSE <<>>

\* unordered_map::operator[]: the value read, and the map afterwards (a
\* missing key is inserted with an empty string)
At(table, key) == IF key \in DOMAIN table THEN table[key] ELSE <<>>

Touch(table, key) ==
  IF key \in DOMAIN table THEN table ELSE table @@ (key :> <<>>)

\* the enabler with an empty body in the build without _WIN32
enableVTSequences_stub(flag, e) ==
  IF win32 THEN (IF e = "ok" THEN TRUE ELSE flag) ELSE flag

\* an enabler that flips the flag instead of setting it
enableVTSequences_toggle(flag, e) == ~flag

\* _private::enableVTSequences: the flag it leaves behind.  e is what the
\* console calls of the Windows build do; the other build ignores it.
enableVTSequences(flag, e) ==
  IF win32 THEN (IF e = "ok" THEN TRUE ELSE flag) ELSE TRUE

\* enableVTSequences with its exit() calls left out: a failure falls through
enableExits_never(e) == FALSE

\* _private::enableVTSequences: TRUE iff it reaches one of its exit() calls
enableExits(e) == win32 /\ e \in EnableFailures

\* _private::enableVTSequences: what it writes to std::cerr before exit()
enableMessage(e) ==
  IF e = "no_handle" THEN "Couldn't get the console handle. Quitting.\n"
  ELSE "Unable to enter VT processing mode. Quitting.\n"

\* ------------------------------------------------- the course of one call
\* the part of a call's progress the gate and the position check decide:
\* the flag, the enabler count, whether exit() was reached, std::cerr
Entry ==
  [flag |-> handleVTSequences, calls |-> enableCalls, exit |-> FALSE,
   diag |-> diag, en |-> "none"]

\* the gate written as "handleVTSequences = <the console calls succeeded>",
\* run on every call and without exit()
Gate_reassign(st, e) ==
  IF st.exit THEN st
  ELSE [flag  |-> (~win32 \/ e = "ok"),
        calls |-> st.calls + 1,
        exit  |-> FALSE,
        diag  |-> st.diag,
        en    |-> IF win32 THEN e ELSE "ok"]

\* the gate without its "if (!handleVTSequences)": the enabler runs on every call
Gate_unguarded(st, e) ==
  IF st.exit THEN st
  ELSE [flag  |-> enableVTSequences(st.flag, e),
        calls |-> st.calls + 1,
        exit  |-> enableExits(e),
        diag  |-> IF enableExits(e) THEN enableMessage(e) ELSE st.diag,
        en    |-> IF win32 THEN e ELSE "ok"]

\* if (!_private::handleVTSequences) _private::enableVTSequences(...)
Gate(st, e) ==
  IF st.exit THEN st
  ELSE IF ~st.flag
       THEN [flag  |-> enableVTSequences(st.flag, e),
             calls |-> st.calls + 1,
             exit  |-> enableExits(e),
             diag  |-> IF enableExits(e) THEN enableMessage(e) ELSE st.diag,
             en    |-> IF win32 THEN e ELSE "ok"]
       ELSE [st EXCEPT !.en = "skipped"]

\* _private::checkPosition(position) that prints its message and returns
Check_noexit(st, position) ==
  IF st.exit THEN st
  ELSE IF checkPosition(position)
       THEN [st EXCEPT !.diag = PositionMessage]
       ELSE st

\* _private::checkPosition(position) as a statement of a facade function
Check(st, position) ==
  IF st.exit THEN st
  ELSE IF checkPosition(position)
       THEN [st EXCEPT !.exit = TRUE, !.diag = PositionMessage]
       ELSE st

\* grey is the only named colour whose six functions carry the gate
Gated(c) == c = "grey"

\* the record of a call; pos is <<p>> for a position argument p, <<>> for none
Request(op, c, position, rgb, text) ==
  [op |-> op, c |-> c, pos |-> position, rgb |-> rgb, text |-> text, en |-> "none"]

\* the end of a call: exit(), or the write to the stream / the return value
Finish(req, st, out, result, ct, cb) ==
  /\ status = "running"
  /\ ncalls < MaxCalls
  /\ ncalls' = ncalls + 1
  /\ win32' = win32
  /\ handleVTSequences' = st.flag
  /\ enableCalls' = st.calls
  /\ last' = [req EXCEPT !.en = st.en]
  /\ threads' = threads
  /\ IF st.exit
     THEN /\ status' = "exited"
          /\ diag' = st.diag
          /\ ret' = <<>>
          /\ UNCHANGED <<os, color_text, color_background>>
     ELSE /\ status' = status
          /\ diag' = diag
          /\ os' = os \o out
          /\ ret' = result
          /\ color_text' = ct
          /\ color_background' = cb

EnableOutcomes == {"ok"} \cup EnableFailures

\* the threads of the host program; a thread that has not called yet
Threads == 1..MaxThreads

Idle ==
  [pc |-> "idle", req |-> Request("none", "", <<>>, <<>>, <<>>),
   seen |-> <<>>, en |-> "none", out |-> <<>>]

Init ==
  /\ win32 \in BOOLEAN
  /\ handleVTSequences = FALSE
  /\ color_text = color_text_init
  /\ color_background = color_background_init
  /\ os = <<>>
  /\ ret = <<>>
  /\ status = "running"
  /\ diag = ""
  /\ enableCalls = 0
  /\ ncalls = 0
  /\ last = Request("none", "", <<>>, <<>>, <<>>)
  /\ threads = [t \in Threads |-> Idle]

\* ----------------------------------------------------------- RGB facade
\* color<position, red, green, blue>(ostream&)
ColorPosStream(position, rgb, e) ==
  Finish(Request("color_pos_os", "", <<position>>, rgb, <<>>),
         Gate(Check(Entry, position), e),
         getColor(position, rgb[1], rgb[2], rgb[3]), <<>>,
         color_text, color_background)

\* color<position, red, green, blue>(const string&)
ColorPosString(position, rgb, text, e) ==
  Finish(Request("color_pos_str", "", <<position>>, rgb, text),
         Gate(Check(Entry, position), e),
         <<>>,
         << IF position = TEXT THEN colorText(rgb[1], rgb[2], rgb[3], text)
            ELSE colorBackground(rgb[1], rgb[2], rgb[3], text) >>,
         color_text, color_background)

\* color<red, green, blue>(const string&) with the position check of the
\* positional overload, run on its first template argument
ColorString_checked(rgb, text, e) ==
  Finish(Request("color_str", "", <<>>, rgb, text),
         Gate(Check(Entry, rgb[1]), e),
         <<>>, <<colorText(rgb[1], rgb[2], rgb[3], text)>>,
         color_text, color_background)

\* color<red, green, blue>(const string&)
ColorString(rgb, text, e) ==
  Finish(Request("color_str", "", <<>>, rgb, text), Gate(Entry, e),
         <<>>, <<colorText(rgb[1], rgb[2], rgb[3], text)>>,
         color_text, color_background)

\* color<red, green, blue>(ostream&)
ColorStream(rgb, e) ==
  Finish(Request("color_os", "", <<>>, rgb, <<>>), Gate(Entry, e),
         colorBackgroundSeq(rgb[1], rgb[2], rgb[3]), <<>>,
         color_text, color_background)

\* on_color<red, green, blue>(const string&)
OnColorString(rgb, text, e) ==
  Finish(Request("on_color_str", "", <<>>, rgb, text), Gate(Entry, e),
         <<>>, <<colorText(rgb[1], rgb[2], rgb[3], text)>>,
         color_text, color_background)

\* on_color<red, green, blue>(ostream&) writing the text generator's sequence
OnColorStream_text(rgb, e) ==
  Finish(Request("on_color_os", "", <<>>, rgb, <<>>), Gate(Entry, e),
         colorTextSeq(rgb[1], rgb[2], rgb[3]), <<>>,
         color_text, color_background)

\* on_color<red, green, blue>(ostream&)
OnColorStream(rgb, e) ==
  Finish(Request("on_color_os", "", <<>>, rgb, <<>>), Gate(Entry, e),
         colorBackgroundSeq(rgb[1], rgb[2], rgb[3]), <<>>,
         color_text, color_background)

\* --------------------------------------------------- named-colour facade
\* X<position>(ostream&) with the two arms of its conditional exchanged
NamedPosStream_swapped(c, position, e) ==
  Finish(Request("named_pos_os", c, <<position>>, <<>>, <<>>),
         IF Gated(c) THEN Check(Gate(Entry, e), position)
         ELSE Check(Entry, position),
         IF position = TEXT THEN At(color_background, c) ELSE At(color_text, c),
         <<>>,
         IF position = TEXT THEN color_text ELSE Touch(color_text, c),
         IF position = TEXT THEN Touch(color_background, c) ELSE color_background)

\* X<position>(ostream&), X one of the 16 named colours.  grey runs the
\* gate and then checkPosition; the 15 others run checkPosition only.
NamedPosStream(c, position, e) ==
  Finish(Request("named_pos_os", c, <<position>>, <<>>, <<>>),
         IF Gated(c) THEN Check(Gate(Entry, e), position)
         ELSE Check(Entry, position),
         IF position = TEXT THEN At(color_text, c) ELSE At(color_background, c),
         <<>>,
         IF position = TEXT THEN Touch(color_text, c) ELSE color_text,
         IF position = TEXT THEN color_background ELSE Touch(color_background, c))

\* X<position>(const string&) with grey's position check ahead of its gate
NamedPosString_checkfirst(c, position, text, e) ==
  Finish(Request("named_pos_str", c, <<position>>, <<>>, text),
         IF Gated(c) THEN Gate(Check(Entry, position), e)
         ELSE Check(Entry, position),
         <<>>,
         << (IF position = TEXT THEN At(color_text, c)
             ELSE At(color_background, c)) \o text \o RESET_STYLE >>,
         IF position = TEXT THEN Touch(color_text, c) ELSE color_text,
         IF position = TEXT THEN color_background ELSE Touch(color_background, c))

\* X<position>(const string&)
NamedPosString(c, position, text, e) ==
  Finish(Request("named_pos_str", c, <<position>>, <<>>, text),
         IF Gated(c) THEN Check(Gate(Entry, e), position)
         ELSE Check(Entry, position),
         <<>>,
         << (IF position = TEXT THEN At(color_text, c)
             ELSE At(color_background, c)) \o text \o RESET_STYLE >>,
         IF position = TEXT THEN Touch(color_text, c) ELSE color_text,
         IF position = TEXT THEN color_background ELSE Touch(color_background, c))

\* X(const string&) reading the background table
NamedString_background(c, text, e) ==
  Finish(Request("named_str", c, <<>>, <<>>, text),
         IF Gated(c) THEN Gate(Entry, e) ELSE Entry,
         <<>>, <<At(color_background, c) \o text \o RESET_STYLE>>,
         color_text, Touch(color_background, c))

\* X(const string&)
NamedString(c, text, e) ==
  Finish(Request("named_str", c, <<>>, <<>>, text),
         IF Gated(c) THEN Gate(Entry, e) ELSE Entry,
         <<>>, <<At(color_text, c) \o text \o RESET_STYLE>>,
         Touch(color_text, c), color_background)

\* X(ostream&)
NamedStream(c, e) ==
  Finish(Request("named_os", c, <<>>, <<>>, <<>>),
         IF Gated(c) THEN Gate(Entry, e) ELSE Entry,
         At(color_text, c), <<>>,
         Touch(color_text, c), color_background)

\* on_X(const string&)
OnNamedString(c, text, e) ==
  Finish(Request("on_named_str", c, <<>>, <<>>, text),
         IF Gated(c) THEN Gate(Entry, e) ELSE Entry,
         <<>>, <<At(color_background, c) \o text \o RESET_STYLE>>,
         color_text, Touch(color_background, c))

\* on_X(ostream&) reading the text table
OnNamedStream_text(c, e) ==
  Finish(Request("on_named_os", c, <<>>, <<>>, <<>>),
         IF Gated(c) THEN Gate(Entry, e) ELSE Entry,
         At(color_text, c), <<>>,
         Touch(color_text, c), color_background)

\* on_X(ostream&)
OnNamedStream(c, e) ==
  Finish(Request("on_named_os", c, <<>>, <<>>, <<>>),
         IF Gated(c) THEN Gate(Entry, e) ELSE Entry,
         At(color_background, c), <<>>,
         color_text, Touch(color_background, c))

\* ------------------------------------------------------- styles and reset
\* the literal written by bold / italic / underline / reverse (ostream&)
styleStreamLiteral(s) ==
  CASE s = "bold"      -> <<ESC, "[", "1", "m">>
    [] s = "italic"    -> <<ESC, "[", "3", "m">>
    [] s = "underline" -> <<ESC, "[", "4", "m">>
    [] s = "reverse"   -> <<ESC, "[", "7", "m">>

\* the string forms with the code of "faint" (2) in italic
styleStringLiteral_typo(s) ==
  CASE s = "bold"      -> <<ESC, "[", "1", "m">>
    [] s = "italic"    -> <<ESC, "[", "2", "m">>
    [] s = "underline" -> <<ESC, "[", "4", "m">>
    [] s = "reverse"   -> <<ESC, "[", "7", "m">>

\* the local constant of bold / italic / underline / reverse (const string&)
styleStringLiteral(s) ==
  CASE s = "bold"      -> <<ESC, "[", "1", "m">>
    [] s = "italic"    -> <<ESC, "[", "3", "m">>
    [] s = "underline" -> <<ESC, "[", "4", "m">>
    [] s = "reverse"   -> <<ESC, "[", "7", "m">>

\* bold / italic / underline / reverse (ostream&)
StyleStream(s, e) ==
  Finish(Request("style_os", s, <<>>, <<>>, <<>>), Gate(Entry, e),
         styleStreamLiteral(s), <<>>, color_text, color_background)

\* bold / italic / underline / reverse (const string&)
StyleString(s, text, e) ==
  Finish(Request("style_str", s, <<>>, <<>>, text), Gate(Entry, e),
         <<>>, <<styleStringLiteral(s) \o text \o RESET_STYLE>>,
         color_text, color_background)

\* reset(ostream&)
ResetStream(e) ==
  Finish(Request("reset_os", "", <<>>, <<>>, <<>>), Gate(Entry, e),
         RESET_STYLE, <<>>, color_text, color_background)

\* reset(const string&) that also places the sequence before the text
ResetString_wrapped(text, e) ==
  Finish(Request("reset_str", "", <<>>, <<>>, text), Gate(Entry, e),
         <<>>, <<RESET_STYLE \o text \o RESET_STYLE>>, color_text, color_background)

\* reset(const string&)
ResetString(text, e) ==
  Finish(Request("reset_str", "", <<>>, <<>>, text), Gate(Entry, e),
         <<>>, <<text \o RESET_STYLE>>, color_text, color_background)

\* ------------------------------------------------- calls made by threads
\* The gated functions a thread calls: grey(const string&), grey(ostream&)
\* on a stream of its own, reset(ostream&) likewise.  handleVTSequences is a
\* plain bool: the test and the enabler's store are separate steps, and a
\* test that runs beside another thread's store sees the value before or
\* after it.
ThreadTexts == {<<>>, <<"h">>}

ThreadRequests ==
  {Request("named_str", "grey", <<>>, <<>>, t) : t \in ThreadTexts}
    \cup {Request("named_os", "grey", <<>>, <<>>, <<>>),
          Request("reset_os", "", <<>>, <<>>, <<>>)}

\* what the body of the function writes or returns after the gate
ThreadOutput(req) ==
  CASE req.op = "named_str" -> At(color_text, req.c) \o req.text \o RESET_STYLE
    [] req.op = "named_os"  -> At(color_text, req.c)
    [] req.op = "reset_os"  -> RESET_STYLE

\* unchanged by every step of a thread
SequentialVars == <<win32, os, ret, ncalls, last>>

\* if (!_private::handleVTSequences) ... : the test of the flag
ThreadTest(t, req) ==
  /\ status = "running"
  /\ threads[t].pc = "idle"
  /\ threads' = [threads EXCEPT ![t] =
                   [pc   |-> IF handleVTSequences THEN "return" ELSE "enable",
                    req  |-> req,
                    seen |-> <<handleVTSequences>>,
                    en   |-> "none",
                    out  |-> <<>>]]
  /\ UNCHANGED <<handleVTSequences, enableCalls, status, diag,
                 color_text, color_background>>
  /\ UNCHANGED SequentialVars

\* the enabler behind a second test of the flag (double-checked gate)
ThreadEnable_recheck(t, e) ==
  /\ status = "running"
  /\ threads[t].pc = "enable"
  /\ IF handleVTSequences
     THEN /\ threads' = [threads EXCEPT ![t].pc = "return"]
          /\ UNCHANGED <<handleVTSequences, enableCalls, status, diag>>
     ELSE /\ enableCalls' = enableCalls + 1
          /\ handleVTSequences' = enableVTSequences(handleVTSequences, e)
          /\ status' = IF enableExits(e) THEN "exited" ELSE status
          /\ diag' = IF enableExits(e) THEN enableMessage(e) ELSE diag
          /\ threads' = [threads EXCEPT
                           ![t].pc = IF enableExits(e) THEN "exited" ELSE "return",
                           ![t].en = IF win32 THEN e ELSE "ok"]
  /\ UNCHANGED <<color_text, color_background>>
  /\ UNCHANGED SequentialVars

\* a gate that waits for another thread to have enabled the capability
ThreadEnable_wait(t, e) ==
  /\ status = "running"
  /\ threads[t].pc = "enable"
  /\ handleVTSequences
  /\ threads' = [threads EXCEPT ![t].pc = "return", ![t].en = "skipped"]
  /\ UNCHANGED <<handleVTSequences, enableCalls, status, diag,
                 color_text, color_background>>
  /\ UNCHANGED SequentialVars

\* ... _private::enableVTSequences(_private::handleVTSequences), reached by
\* a thread whose test found the flag false
ThreadEnable(t, e) ==
  /\ status = "running"
  /\ threads[t].pc = "enable"
  /\ enableCalls' = enableCalls + 1
  /\ handleVTSequences' = enableVTSequences(handleVTSequences, e)
  /\ status' = IF enableExits(e) THEN "exited" ELSE status
  /\ diag' = IF enableExits(e) THEN enableMessage(e) ELSE diag
  /\ threads' = [threads EXCEPT
                   ![t].pc = IF enableExits(e) THEN "exited" ELSE "return",
                   ![t].en = IF win32 THEN e ELSE "ok"]
  /\ UNCHANGED <<color_text, color_background>>
  /\ UNCHANGED SequentialVars

\* os << sequence; return os;  /  return sequence + text + RESET_STYLE;
ThreadReturn(t) ==
  /\ status = "running"
  /\ threads[t].pc = "return"
  /\ threads' = [threads EXCEPT ![t].pc = "done",
                                ![t].out = <<ThreadOutput(threads[t].req)>>]
  /\ color_text' = IF threads[t].req.op = "reset_os" THEN color_text
                   ELSE Touch(color_text, threads[t].req.c)
  /\ UNCHANGED <<handleVTSequences, enableCalls, status, diag, color_background>>
  /\ UNCHANGED SequentialVars

\* ---------------------------------------------------------- specification
\* what the console calls can do in a call of a function that has the gate
Outcomes(gated) == IF gated /\ win32 THEN EnableOutcomes ELSE {"ok"}

\* one call of any public function, its template arguments and text drawn
\* from the given colours and colour components
AnyCall(colors, rgbs) ==
  \/ \E p \in Positions, rgb \in rgbs, e \in Outcomes(TRUE) :
       ColorPosStream(p, rgb, e)
  \/ \E p \in Positions, rgb \in rgbs, t \in Texts, e \in Outcomes(TRUE) :
       ColorPosString(p, rgb, t, e)
  \/ \E rgb \in rgbs, t \in Texts, e \in Outcomes(TRUE) : ColorString(rgb, t, e)
  \/ \E rgb \in rgbs, e \in Outcomes(TRUE) : ColorStream(rgb, e)
  \/ \E rgb \in rgbs, t \in Texts, e \in Outcomes(TRUE) : OnColorString(rgb, t, e)
  \/ \E rgb \in rgbs, e \in Outcomes(TRUE) : OnColorStream(rgb, e)
  \/ \E c \in colors, p \in Positions : \E e \in Outcomes(Gated(c)) :
       NamedPosStream(c, p, e)
  \/ \E c \in colors, p \in Positions, t \in Texts : \E e \in Outcomes(Gated(c)) :
       NamedPosString(c, p, t, e)
  \/ \E c \in colors, t \in Texts : \E e \in Outcomes(Gated(c)) : NamedString(c, t, e)
  \/ \E c \in colors : \E e \in Outcomes(Gated(c)) : NamedStream(c, e)
  \/ \E c \in colors, t \in Texts : \E e \in Outcomes(Gated(c)) : OnNamedString(c, t, e)
  \/ \E c \in colors : \E e \in Outcomes(Gated(c)) : OnNamedStream(c, e)
  \/ \E s \in StyleNames, e \in Outcomes(TRUE) : StyleStream(s, e)
  \/ \E s \in StyleNames, t \in Texts, e \in Outcomes(TRUE) : StyleString(s, t, e)
  \/ \E e \in Outcomes(TRUE) : ResetStream(e)
  \/ \E t \in Texts, e \in Outcomes(TRUE) : ResetString(t, e)

\* a run of the host program: up to MaxCalls calls
Next == AnyCall(RunColors, RunRGBs)

Spec == Init /\ [][Next]_vars

\* a single call, over all 16 colours and the boundary colour components
NextCall == ncalls = 0 /\ AnyCall(NamedColors, CallRGBs)

SpecCall == Init /\ [][NextCall]_vars

\* a single string-form call whose text may hold the bytes of escape sequences
NextRound ==
  /\ ncalls = 0
  /\ \E t \in RoundTexts :
       \/ \E p \in Positions, rgb \in RunRGBs, e \in Outcomes(TRUE) :
            ColorPosString(p, rgb, t, e)
       \/ \E rgb \in RunRGBs, e \in Outcomes(TRUE) : ColorString(rgb, t, e)
       \/ \E rgb \in RunRGBs, e \in Outcomes(TRUE) : OnColorString(rgb, t, e)
       \/ \E c \in RunColors, p \in Positions : \E e \in Outcomes(Gated(c)) :
            NamedPosString(c, p, t, e)
       \/ \E c \in RunColors : \E e \in Outcomes(Gated(c)) : NamedString(c, t, e)
       \/ \E c \in RunColors : \E e \in Outcomes(Gated(c)) : OnNamedString(c, t, e)
       \/ \E s \in StyleNames, e \in Outcomes(TRUE) : StyleString(s, t, e)
       \/ \E e \in Outcomes(TRUE) : ResetString(t, e)

SpecRound == Init /\ [][NextRound]_vars

\* a shorthand call X(..) or on_X(..) of any of the 16 colours, followed by
\* calls of the positional form X<position>(..) of the same colour
NextPair ==
  \/ /\ ncalls = 0
     /\ \E c \in NamedColors : \E e \in Outcomes(Gated(c)) :
          \/ \E t \in Texts : NamedString(c, t, e)
          \/ NamedStream(c, e)
          \/ \E t \in Texts : OnNamedString(c, t, e)
          \/ OnNamedStream(c, e)
  \/ /\ ncalls > 0
     /\ \E p \in Positions : \E e \in Outcomes(Gated(last.c)) :
          \/ NamedPosStream(last.c, p, e)
          \/ \E t \in Texts : NamedPosString(last.c, p, t, e)

SpecPair == Init /\ [][NextPair]_vars

\* MaxThreads threads, each making one call to a gated function, their
\* steps interleaved
ThreadStep(t) ==
  \/ \E req \in ThreadRequests : ThreadTest(t, req)
  \/ \E e \in Outcomes(TRUE) : ThreadEnable(t, e)
  \/ ThreadReturn(t)

NextThreads == \E t \in Threads : ThreadStep(t)

SpecThreads == Init /\ [][NextThreads]_vars

\* the same threads under a scheduler that lets every thread run: a call is
\* straight-line code, so a thread inside a call always has a next step
SpecLive == SpecThreads /\ \A t \in Threads : WF_vars(ThreadStep(t))

\* ------------------------------------------------------- the wire format
\* The escape sequences as the interface section of the specification
\* writes them, built without the tables and formatter above.
DigitValue(ch) == CHOOSE i \in 0..9 : DigitChars[i + 1] = ch

RECURSIVE NumeralValue(_)
NumeralValue(d) ==
  IF Len(d) = 0 THEN 0
  ELSE 10 * NumeralValue(SubSeq(d, 1, Len(d) - 1)) + DigitValue(d[Len(d)])

DigitSet == {DigitChars[i] : i \in 1..10}

Numerals ==
  {<<a>> : a \in DigitSet}
    \cup {<<a, b>> : a \in DigitSet \ {"0"}, b \in DigitSet}
    \cup {<<a, b, c>> : a \in DigitSet \ {"0"}, b \in DigitSet, c \in DigitSet}

\* the decimal numeral of a byte: no leading zero, and it denotes the byte
Numeral == [n \in 0..255 |-> CHOOSE d \in Numerals : NumeralValue(d) = n]

\* k = 0..7 over grey, red, green, yellow, blue, magenta, cyan, white
HueDigit(c) ==
  LET k == CHOOSE i \in 1..8 : c = BaseColors[i] \/ c = BrightColors[i]
  IN  DigitChars[k]

IsBright(c) == \E i \in 1..8 : c = BrightColors[i]

WireNamed(c, foreground) ==
  <<ESC, "[">> \o (IF IsBright(c) THEN <<"1", ";">> ELSE <<>>)
    \o <<IF foreground THEN "3" ELSE "4", HueDigit(c), "m">>

WireRGB(rgb, foreground) ==
  <<ESC, "[", IF foreground THEN "3" ELSE "4", "8", ";", "2", ";">>
    \o Numeral[rgb[1]] \o <<";">> \o Numeral[rgb[2]] \o <<";">>
    \o Numeral[rgb[3]] \o <<"m">>

WireStyle(s) ==
  <<ESC, "[",
    CASE s = "bold" -> "1" [] s = "italic" -> "3"
      [] s = "underline" -> "4" [] s = "reverse" -> "7",
    "m">>

WireReset == <<ESC, "[", "0", "m">>

StreamOps == {"color_pos_os", "color_os", "on_color_os", "named_pos_os",
              "named_os", "on_named_os", "style_os", "reset_os"}

StringOps == {"color_pos_str", "color_str", "on_color_str", "named_pos_str",
              "named_str", "on_named_str", "style_str", "reset_str"}

\* the target a request names: the position where one is given, the
\* background for the on_ functions, the text otherwise
Foreground(req) ==
  IF req.op \in {"color_pos_os", "color_pos_str", "named_pos_os", "named_pos_str"}
  THEN req.pos = <<1>>
  ELSE req.op \notin {"on_color_os", "on_color_str", "on_named_os", "on_named_str"}

\* resolve(request): the sequence the request stands for
Resolve(req) ==
  CASE req.op \in {"color_pos_os", "color_pos_str", "color_os", "color_str",
                   "on_color_os", "on_color_str"} -> WireRGB(req.rgb, Foreground(req))
    [] req.op \in {"named_pos_os", "named_pos_str", "named_os", "named_str",
                   "on_named_os", "on_named_str"} -> WireNamed(req.c, Foreground(req))
    [] req.op \in {"style_os", "style_str"} -> WireStyle(req.c)
    [] req.op \in {"reset_os", "reset_str"} -> WireReset

\* the last call returned to its caller (it did not reach exit())
Returned == ncalls >= 1 /\ status = "running"

Prefix(p, str) == Len(str) >= Len(p) /\ SubSeq(str, 1, Len(p)) = p

\* ------------------------------------------------------------------ claims
\* C1: handleVTSequences starts false and, once true, is never set back to
\* false by any sequence of styling calls.
C1_FlagMonotone ==
  /\ ~handleVTSequences
  /\ [][handleVTSequences => handleVTSequences']_vars

\* a call made when the flag was already true has returned, the flag still true
C1_Witness ==
  /\ ncalls = 2 /\ last.en = "skipped" /\ handleVTSequences
  /\ last.op = "reset_os" /\ status = "running"

\* C2: after the first styling call of any kind returns, handleVTSequences
\* is true and the enabler has been invoked.
C2_FirstCallEnables ==
  Returned => (handleVTSequences /\ enableCalls >= 1)

\* C3: no escape sequence is in the stream or in a returned string while
\* handleVTSequences is still false.
C3_GateBeforeWrite ==
  (os # <<>> \/ ret # <<>>) => handleVTSequences

\* C4: the enabler is invoked at most once per process, and never again
\* once handleVTSequences is true.
C4_EnablerOnce ==
  /\ [](enableCalls <= 1)
  /\ [][handleVTSequences => enableCalls' = enableCalls]_vars

\* two gated calls have returned and the enabler ran for the first only
C4_Witness ==
  /\ ncalls = 2 /\ enableCalls = 1 /\ status = "running"
  /\ last.op = "style_str" /\ last.en = "skipped"

\* C5: when the enabler fails, the process exits with a diagnostic message:
\* the call does not return, nothing is written to the stream, and
\* handleVTSequences stays false.
C5_EnablerFailureIsFatal ==
  [][(ncalls' = ncalls + 1 /\ last'.en \in EnableFailures) =>
       /\ status' = "exited"
       /\ diag' # "" /\ diag = ""
       /\ os' = os
       /\ ret' = <<>>
       /\ ~handleVTSequences']_vars

\* a stream call whose enabler could not set the console mode has ended the process
C5_Witness ==
  /\ status = "exited" /\ last.en = "no_setmode" /\ last.op = "named_os"
  /\ enableCalls = 1 /\ os = <<>>

\* C6: every string-form colour, style and RGB operation returns
\* resolve(request), then the unmodified text, then ESC[0m.
C6_StringForm ==
  (Returned /\ last.op \in StringOps \ {"reset_str"}) =>
     ret = <<Resolve(last) \o last.text \o WireReset>>

\* C7: one stream-form call appends exactly the resolved escape sequence of
\* its request to the stream.
C7_StreamForm ==
  [][(ncalls' = ncalls + 1 /\ status' = "running" /\ last'.op \in StreamOps) =>
       os' = os \o Resolve(last')]_vars

\* C8: for the 8 hues, 2 targets and 2 brightness levels, X<TEXT> resolves to
\* ESC[3km (bright ESC[1;3km) and X<BACKGROUND> to ESC[4km (bright
\* ESC[1;4km), and all 32 table entries are defined.
C8_NamedWire ==
  /\ \A c \in NamedColors : c \in DOMAIN color_text /\ c \in DOMAIN color_background
  /\ (Returned /\ last.op = "named_pos_os") =>
        os = WireNamed(last.c, last.pos = <<TEXT>>)
  /\ (Returned /\ last.op = "named_pos_str") =>
        Prefix(WireNamed(last.c, last.pos = <<TEXT>>) \o last.text, ret[1])

\* bright_magenta<BACKGROUND>(os) has written ESC[1;45m
C8_Witness ==
  /\ Returned /\ last.op = "named_pos_os" /\ last.c = "bright magenta"
  /\ last.pos = <<BACKGROUND>> /\ os = <<ESC, "[", "1", ";", "4", "5", "m">>

\* to_string agrees with the decimal numeral on every byte
ToStringIsNumeral == \A n \in 0..255 : to_string(n) = Numeral[n]

\* C9: for both targets and all components, the RGB sequence is
\* ESC[38;2;R;G;Bm (position 1) or ESC[48;2;R;G;Bm (position 0), R, G, B in
\* that order as decimal numerals without leading zeros.
C9_RGBWire ==
  /\ ToStringIsNumeral
  /\ (Returned /\ last.op = "color_pos_os") =>
        os = WireRGB(last.rgb, last.pos = <<1>>)
  /\ (Returned /\ last.op = "color_pos_str") =>
        Prefix(WireRGB(last.rgb, last.pos = <<1>>) \o last.text, ret[1])

\* color<0, 9, 100, 255>(os) has written ESC[48;2;9;100;255m
C9_Witness ==
  /\ Returned /\ last.op = "color_pos_os" /\ last.pos = <<0>>
  /\ last.rgb = <<9, 100, 255>>
  /\ os = <<ESC, "[", "4", "8", ";", "2", ";", "9", ";", "1", "0", "0", ";",
            "2", "5", "5", "m">>

\* C10: bold, italic, underline and reverse resolve to ESC[1m, ESC[3m,
\* ESC[4m and ESC[7m, in the stream form and in the string form.
C10_StyleWire ==
  /\ (Returned /\ last.op = "style_os") => os = WireStyle(last.c)
  /\ (Returned /\ last.op = "style_str") =>
        Prefix(WireStyle(last.c) \o last.text, ret[1])

\* italic("h") has returned ESC[3m h ESC[0m
C10_Witness ==
  /\ Returned /\ last.op = "style_str" /\ last.c = "italic"
  /\ ret = << <<ESC, "[", "3", "m", "h", ESC, "[", "0", "m">> >>


\* the parameter bytes of an ESC[...m sequence
ParamChars == DigitSet \cup {";"}

\* the length of the ESC[...m sequence str starts with, 0 when it starts with none
SequenceEnd(str) ==
  IF Len(str) >= 3 /\ str[1] = ESC /\ str[2] = "["
  THEN LET J == {j \in 3..Len(str) :
                   str[j] = "m" /\ \A i \in 3..(j - 1) : str[i] \in ParamChars}
       IN  IF J = {} THEN 0 ELSE CHOOSE j \in J : \A k \in J : j <= k
  ELSE 0

\* str with every ESC[...m sequence removed, scanning from the left
RECURSIVE Strip(_)
Strip(str) ==
  IF str = <<>> THEN <<>>
  ELSE LET n == SequenceEnd(str)
       IN  IF n > 0 THEN Strip(SubSeq(str, n + 1, Len(str)))
           ELSE <<str[1]>> \o Strip(Tail(str))

\* C11 (as stated): stripping every ESC[...m sequence from the result of a
\* string-form operation yields the input text, for every text, also one
\* that holds ESC bytes.
C11_RoundTripAnyText ==
  (Returned /\ last.op \in StringOps) => Strip(ret[1]) = last.text

\* C11 (amended): stripping every ESC[...m sequence from the result of a
\* string-form operation yields the input text, for every text that holds no
\* complete ESC[...m sequence itself; lone ESC bytes pass through unchanged.
C11_RoundTrip ==
  (Returned /\ last.op \in StringOps /\ Strip(last.text) = last.text) =>
     Strip(ret[1]) = last.text

\* color<255,0,128>(ESC [ h) has returned, and stripping gives ESC [ h back
C11_Witness ==
  /\ Returned /\ last.op = "color_str" /\ last.text = <<ESC, "[", "h">>
  /\ Strip(ret[1]) = <<ESC, "[", "h">> /\ Len(ret[1]) > 3


\* the string form offered under the same name as a stream form
StringTwin ==
  ("color_pos_os" :> "color_pos_str") @@ ("color_os" :> "color_str") @@
  ("on_color_os" :> "on_color_str") @@ ("named_pos_os" :> "named_pos_str") @@
  ("named_os" :> "named_str") @@ ("on_named_os" :> "on_named_str") @@
  ("style_os" :> "style_str")

\* a first call in stream form has returned, and this step is the call of
\* its string form with the same template arguments, which returns too
PairStep ==
  /\ ncalls = 1 /\ ncalls' = 2 /\ status = "running" /\ status' = "running"
  /\ last.op \in DOMAIN StringTwin /\ last'.op = StringTwin[last.op]
  /\ last'.c = last.c /\ last'.pos = last.pos /\ last'.rgb = last.rgb

\* C12: for every request offered as a stream-form/string-form pair, the
\* sequence the stream form writes is the sequence the string form places
\* before the text.
C12_PairAgree ==
  [][PairStep => ret' = <<os \o last'.text \o WireReset>>]_vars


\* C13: color<r,g,b>(ostream&) colours the text: it writes ESC[38;2;r;g;bm.
C13_ColorStreamIsText ==
  (Returned /\ last.op = "color_os") => os = WireRGB(last.rgb, TRUE)

\* C14: on_color<r,g,b>(text) colours the background: it returns
\* ESC[48;2;r;g;bm, the text, ESC[0m.
C14_OnColorStringIsBackground ==
  (Returned /\ last.op = "on_color_str") =>
     ret = <<WireRGB(last.rgb, FALSE) \o last.text \o WireReset>>

\* C15 (as stated): on_color<r,g,b>(ostream&) resolves to the foreground
\* sequence ESC[38;2;r;g;bm.
C15_OnColorStreamIsForeground ==
  (Returned /\ last.op = "on_color_os") => os = WireRGB(last.rgb, TRUE)

\* C15 (amended): on_color<r,g,b>(ostream&) resolves to the background
\* sequence ESC[48;2;r;g;bm, as its name says.
C15_OnColorStreamIsBackground ==
  (Returned /\ last.op = "on_color_os") => os = WireRGB(last.rgb, FALSE)

\* on_color<10,0,255>(os) has written ESC[48;2;10;0;255m
C15_Witness ==
  /\ Returned /\ last.op = "on_color_os" /\ last.rgb = <<10, 0, 255>>
  /\ os = <<ESC, "[", "4", "8", ";", "2", ";", "1", "0", ";", "0", ";",
            "2", "5", "5", "m">>


\* a shorthand call that returned, followed by the positional form of the
\* same colour (and the same text) that returned
ShorthandStep(shortOp, posOp, position) ==
  /\ ncalls = 1 /\ ncalls' = 2
  /\ status = "running" /\ status' = "running"
  /\ last.op = shortOp /\ last'.op = posOp
  /\ last'.c = last.c /\ last'.pos = <<position>>
  /\ last'.text = last.text

C17_OnIsBackground ==
  [][ /\ BACKGROUND = 0 /\ TEXT = 1
      /\ ShorthandStep("on_named_str", "named_pos_str", BACKGROUND) => ret' = ret
      /\ ShorthandStep("on_named_os", "named_pos_os", BACKGROUND) => os' = os \o os
    ]_vars

\* on_cyan(os) then cyan<BACKGROUND>(os): the stream holds ESC[46m twice
C17_Witness ==
  /\ Returned /\ ncalls = 2 /\ last.op = "named_pos_os" /\ last.c = "cyan"
  /\ last.pos = <<BACKGROUND>>
  /\ os = <<ESC, "[", "4", "6", "m", ESC, "[", "4", "6", "m">>


\* the last n bytes of str
Suffix(str, n) == SubSeq(str, Len(str) - n + 1, Len(str))

\* C18: reset(os) writes exactly ESC[0m to the stream, and every string-form
\* operation returns a string that ends with the text followed by ESC[0m.
C18_ResetWire ==
  /\ (Returned /\ last.op = "reset_os") => os = WireReset
  /\ (Returned /\ last.op \in StringOps) =>
        /\ Len(ret[1]) >= Len(last.text) + Len(WireReset)
        /\ Suffix(ret[1], Len(last.text) + Len(WireReset))
              = last.text \o WireReset

\* reset(os) has written the four bytes ESC [ 0 m
C18_Witness ==
  /\ Returned /\ last.op = "reset_os"
  /\ Len(os) = 4 /\ os[1] = ESC /\ os[2] = "[" /\ os[3] = "0" /\ os[4] = "m"


\* C19 (as stated): the only way a styling operation ends the process is a
\* failure of the capability enabler; positions have no error path.
C19_OnlyEnablerFails ==
  status = "exited" => last.en \in EnableFailures

\* the position argument of the call, where it has one, is TEXT or BACKGROUND
PositionValid(req) == req.pos = <<>> \/ req.pos \in {<<TEXT>>, <<BACKGROUND>>}

\* C19 (amended): there are exactly two failure kinds.  A call ends the
\* process iff the capability enabler fails or the call's position argument
\* is neither 0 nor 1, each with its own diagnostic; colours, styles and
\* RGB components have no error path.
C19_TwoFailureKinds ==
  ncalls >= 1 =>
    /\ status = "exited" <=> (last.en \in EnableFailures \/ ~PositionValid(last))
    /\ (status = "exited" /\ last.en \in EnableFailures) =>
          win32 /\ diag = enableMessage(last.en)
    /\ (status = "exited" /\ last.en \notin EnableFailures) =>
          diag = PositionMessage

\* red<2>(os) has ended the process with the position diagnostic although
\* the enabler never ran
C19_Witness ==
  /\ status = "exited" /\ last.op = "named_pos_os" /\ last.c = "red"
  /\ last.pos = <<2>> /\ last.en = "none" /\ enableCalls = 0
  /\ diag = "Position must be either 0 or 1" /\ os = <<>>


RGBOps == {"color_pos_os", "color_pos_str", "color_str", "color_os",
           "on_color_str", "on_color_os"}

DefaultRGBOps == {"color_str", "color_os", "on_color_str", "on_color_os"}

\* C20 (as stated): every RGB request that resolves a sequence was given a
\* position by its caller.
C20_RGBNeedsPosition ==
  (Returned /\ last.op \in RGBOps) => last.pos # <<>>

\* C20 (amended): color<r,g,b> and on_color<r,g,b>, in string and stream
\* form, take no position; they end the process only when the enabler
\* fails, and otherwise resolve a truecolor sequence for r, g, b whose
\* target the function fixes.
C20_RGBDefaultsTarget ==
  (ncalls >= 1 /\ last.op \in DefaultRGBOps) =>
    /\ last.pos = <<>>
    /\ status = "exited" <=> last.en \in EnableFailures
    /\ status = "running" =>
         \E fg \in BOOLEAN :
            IF last.op \in StringOps
            THEN ret = <<WireRGB(last.rgb, fg) \o last.text \o WireReset>>
            ELSE os = WireRGB(last.rgb, fg)

\* color<255,0,9>("h") returned ESC[38;2;255;0;9m h ESC[0m without a position
C20_Witness ==
  /\ Returned /\ last.op = "color_str" /\ last.pos = <<>>
  /\ last.rgb = <<255, 0, 9>> /\ last.text = <<"h">>
  /\ ret = << <<ESC, "[", "3", "8", ";", "2", ";", "2", "5", "5", ";", "0",
                ";", "9", "m", "h", ESC, "[", "0", "m">> >>


\* the threads whose test of the flag found it false
SawFalse == {t \in Threads : threads[t].seen = <<FALSE>>}

\* C21: with two or more threads calling gated operations while the flag is
\* false, the check-then-set is a race.  Nothing stands between a thread's
\* test and its call of the enabler: every thread that saw the flag false
\* invokes the enabler, whatever the other threads did in between, so the
\* enabler runs once per thread that saw false (see C21_Witness: twice).
C21_CheckThenSetRace ==
  [][\A t \in Threads :
       (threads[t].pc = "enable" /\ threads'[t].pc # "enable") =>
          /\ threads[t].seen = <<FALSE>>
          /\ enableCalls' = enableCalls + 1]_vars

\* two threads both saw the flag false and the enabler has run twice
C21_Witness ==
  /\ Cardinality(SawFalse) >= 2
  /\ enableCalls >= 2
  /\ handleVTSequences
  /\ status = "running"


\* the bytes a request stands for when called from a single thread
Expected(req) ==
  IF req.op \in StringOps THEN Resolve(req) \o req.text \o WireReset
  ELSE Resolve(req)

AllDone == \A t \in Threads : threads[t].pc = "done"

\* C22: the enable step is idempotent, so the first-use race is benign.
\* Under every interleaving in which the enabler succeeds: a success of the
\* enabler while the flag is already true leaves it true; once every call
\* is over the flag is true; and each call has written or returned the
\* bytes it produces single-threaded.
C22_RaceBenign ==
  [][\A t \in Threads :
       /\ (threads[t].pc = "enable" /\ threads'[t].en = "ok" /\ handleVTSequences)
             => handleVTSequences'
       /\ AllDone' => handleVTSequences'
       /\ threads'[t].pc = "done" =>
             threads'[t].out = <<Expected(threads'[t].req)>>]_vars

\* both threads ran the enabler, both calls are over: the flag is true and
\* grey("h") came back as ESC[30m h ESC[0m
C22_Witness ==
  /\ AllDone /\ enableCalls >= 2 /\ handleVTSequences
  /\ \E t \in Threads :
       /\ threads[t].req.op = "named_str" /\ threads[t].req.text = <<"h">>
       /\ threads[t].out = << <<ESC, "[", "3", "0", "m", "h", ESC, "[", "0", "m">> >>


\* C23: in the build without _WIN32 the enable step always succeeds: it
\* only sets the flag to true, and no call with a valid position (or with
\* none) ever ends the process.
C23_NativeEnableSucceeds ==
  (~win32 /\ ncalls >= 1) =>
    /\ last.en \notin EnableFailures
    /\ last.en = "ok" => (handleVTSequences /\ enableCalls = 1)
    /\ PositionValid(last) => (status = "running" /\ diag = "")

\* without _WIN32, a second gated call has returned after the first one
\* ran the enabler
C23_Witness ==
  /\ ~win32 /\ ncalls = 2 /\ status = "running"
  /\ last.en = "skipped" /\ handleVTSequences /\ enableCalls = 1


PositionOps == {"color_pos_os", "color_pos_str", "named_pos_os", "named_pos_str"}

\* the last call was a position-template operation with a position other
\* than 0 and 1
InvalidPositionCall ==
  ncalls >= 1 /\ last.op \in PositionOps /\ ~PositionValid(last)

\* C24 (as stated): every position-template operation called with a position
\* other than 0 or 1 ends the process with the message "Position must be
\* either 0 or 1", returns no string and writes nothing to the stream.
C24_InvalidPositionMessage ==
  InvalidPositionCall =>
    /\ status = "exited" /\ diag = "Position must be either 0 or 1"
    /\ ret = <<>> /\ os = <<>>

\* C24 (amended): such a call always ends the process, returns no string
\* and writes nothing; the message is "Position must be either 0 or 1"
\* unless the enabler failed first, which happens only in grey<position>
\* (it runs the gate before the position check) in the _WIN32 build, and
\* then the message is the enabler's.
C24_InvalidPositionExits ==
  InvalidPositionCall =>
    /\ status = "exited" /\ ret = <<>> /\ os = <<>>
    /\ last.en \in EnableFailures => (win32 /\ last.c = "grey")
    /\ diag = IF last.en \in EnableFailures THEN enableMessage(last.en)
              ELSE "Position must be either 0 or 1"

\* color<2,255,0,9>("h") has ended the process with the position message
C24_Witness ==
  /\ status = "exited" /\ last.op = "color_pos_str" /\ last.pos = <<2>>
  /\ last.text = <<"h">> /\ diag = "Position must be either 0 or 1"
  /\ ret = <<>> /\ os = <<>>


\* C25: the string form of reset only appends: reset(text) returns the
\* unmodified text followed by ESC[0m, with no escape sequence before it.
C25_ResetStringAppends ==
  (Returned /\ last.op = "reset_str") =>
     /\ ret = <<last.text \o WireReset>>
     /\ Prefix(last.text, ret[1])
     /\ Len(ret[1]) = Len(last.text) + 4

\* reset("hh") returned h h ESC [ 0 m
C25_Witness ==
  /\ Returned /\ last.op = "reset_str" /\ last.text = <<"h", "h">>
  /\ ret = << <<"h", "h", ESC, "[", "0", "m">> >>


\* a call that returned to its caller
CallReturns == ncalls' = ncalls + 1 /\ status' = "running"

\* C26: styling operations only borrow the caller's buffers.  A string-form
\* call writes to no stream and hands the text back intact inside its
\* result; a stream-form call only appends, so the stream holds its previous
\* content followed by the resolved sequences of the calls in call order.
C26_BorrowedBuffers ==
  [][CallReturns =>
       IF last'.op \in StringOps
       THEN /\ os' = os
            /\ \E i \in 0..Len(ret'[1]) :
                  SubSeq(ret'[1], i + 1, i + Len(last'.text)) = last'.text
       ELSE os' = os \o Resolve(last')]_vars


\* C27: the facade never changes the lookup tables: after any sequence of
\* calls color_text and color_background hold exactly their 16 initial
\* entries (every key a facade function looks up with operator[] exists, so
\* no lookup inserts an empty entry).
C27_TablesUnchanged ==
  /\ color_text = color_text_init
  /\ color_background = color_background_init
  /\ DOMAIN color_text = NamedColors /\ DOMAIN color_background = NamedColors
  /\ Cardinality(DOMAIN color_text) = 16
  /\ Cardinality(DOMAIN color_background) = 16
  /\ \A c \in NamedColors : color_text[c] # <<>> /\ color_background[c] # <<>>

\* bright_white("h") and then bright_white<BACKGROUND>("h") have returned
C27_Witness ==
  /\ Returned /\ ncalls = 2 /\ last.c = "bright white"
  /\ last.op = "named_pos_str" /\ last.pos = <<BACKGROUND>>
  /\ ret = << <<ESC, "[", "1", ";", "4", "7", "m", "h", ESC, "[", "0", "m">> >>
  /\ color_text["bright white"] = <<ESC, "[", "1", ";", "3", "7", "m">>


\* the sequence the code emits for a request: a function of the request
\* alone (for two functions it is not the sequence the request stands for,
\* see C13 and C14)
Emitted(req) ==
  CASE req.op = "color_os"     -> WireRGB(req.rgb, FALSE)
    [] req.op = "on_color_str" -> WireRGB(req.rgb, TRUE)
    [] OTHER                   -> Resolve(req)

\* the bytes a call writes or returns, from its request and text alone
Output(req) ==
  IF req.op = "reset_str" THEN req.text \o WireReset
  ELSE IF req.op \in StringOps THEN Emitted(req) \o req.text \o WireReset
  ELSE Emitted(req)

SameRequest(a, b) ==
  /\ a.op = b.op /\ a.c = b.c /\ a.pos = b.pos /\ a.rgb = b.rgb
  /\ a.text = b.text

\* C28: the bytes a call writes or returns depend only on its request and
\* text, never on handleVTSequences or on the calls before it.  Every call
\* that returns, first or later, produces Output(request); and a call that
\* repeats the request of the first call produces the same bytes again.
C28_HistoryIndependent ==
  [][CallReturns =>
       /\ IF last'.op \in StringOps
          THEN ret' = <<Output(last')>> /\ os' = os
          ELSE os' = os \o Output(last') /\ ret' = <<>>
       /\ (ncalls = 1 /\ status = "running" /\ SameRequest(last, last')) =>
             IF last'.op \in StringOps THEN ret' = ret ELSE os' = os \o os
    ]_vars

\* color<TEXT,255,0,128>(os) twice: the first call ran the enabler, the
\* second skipped it, and both wrote ESC[38;2;255;0;128m
C28_Witness ==
  /\ Returned /\ ncalls = 2 /\ last.op = "color_pos_os" /\ last.pos = <<TEXT>>
  /\ last.en = "skipped" /\ enableCalls = 1
  /\ os = <<ESC, "[", "3", "8", ";", "2", ";", "2", "5", "5", ";", "0", ";",
            "1", "2", "8", "m",
            ESC, "[", "3", "8", ";", "2", ";", "2", "5", "5", ";", "0", ";",
            "1", "2", "8", "m">>


InCall(t) == threads[t].pc \in {"enable", "return"}

\* C29: every styling call completes: no operation blocks or waits on
\* another call; each invocation eventually returns its result or ends the
\* process.
C29_CallsComplete ==
  \A t \in Threads :
     InCall(t) ~> (threads[t].pc = "done" \/ status = "exited")

\* one thread's call is over while another thread is still inside its call
C29_Witness ==
  \E t, u \in Threads :
     /\ threads[t].pc = "done" /\ threads[t].out # <<>>
     /\ threads[u].pc = "enable" /\ status = "running"


\* a call of a positional function that carries the gate, grey<position> or
\* color<position,r,g,b>, with a position other than 0 and 1
InvalidGatedStep ==
  /\ ncalls' = ncalls + 1
  /\ ~PositionValid(last')
  /\ \/ last'.op \in {"color_pos_os", "color_pos_str"}
     \/ last'.op \in {"named_pos_os", "named_pos_str"} /\ last'.c = "grey"

\* C30 (as stated): such a call ends the process without invoking the
\* enabler and without changing handleVTSequences.
C30_InvalidPositionSkipsEnabler ==
  [][InvalidGatedStep =>
       /\ status' = "exited"
       /\ enableCalls' = enableCalls
       /\ handleVTSequences' = handleVTSequences]_vars

\* C30 (amended): such a call always ends the process.  color<position,..>
\* checks the position first: the enabler is not invoked and the flag keeps
\* its value.  grey<position> runs the gate first: while the flag is false
\* it invokes the enabler, which sets the flag when it succeeds, and only
\* then is the position rejected.
C30_InvalidPositionOrder ==
  [][InvalidGatedStep =>
       /\ status' = "exited"
       /\ IF last'.c = "grey" /\ ~handleVTSequences
          THEN /\ enableCalls' = enableCalls + 1
               /\ handleVTSequences' = (last'.en = "ok")
               /\ diag' = IF last'.en = "ok" THEN PositionMessage
                          ELSE enableMessage(last'.en)
          ELSE /\ enableCalls' = enableCalls
               /\ handleVTSequences' = handleVTSequences
               /\ diag' = PositionMessage]_vars

\* grey<2>("h") as the first call: the enabler ran and set the flag, then
\* the position check ended the process
C30_Witness ==
  /\ status = "exited" /\ ncalls = 1
  /\ last.op = "named_pos_str" /\ last.c = "grey" /\ last.pos = <<2>>
  /\ enableCalls = 1 /\ handleVTSequences
  /\ diag = "Position must be either 0 or 1"

=============================================================================
